---- MODULE Spec2Model ----
(***************************************************************************)
(* Model of the atrion-physics core (crate atrion-physics): vector math,   *)
(* momentum, scar and resistance, and the PhysicsEngine facade.            *)
(*                                                                         *)
(* Numbers.  The crate computes in f64.  Here an f64 is a fixed-point      *)
(* number with six decimals (the integer n stands for n / 10^6), every     *)
(* arithmetic result rounded to the nearest representable value, ties to   *)
(* even, as IEEE-754 does; a result beyond the finite range becomes an     *)
(* infinity and an invalid operation (0/0, 0*inf, inf-inf) NaN.  Elapsed   *)
(* times and the half-life are whole numbers of time units (milliseconds), *)
(* held as plain integers: 5000 stands for 5000.0.                         *)
(***************************************************************************)
EXTENDS Integers, Sequences, FiniteSets, TLC

---------------------------------------------------------------------------
(* f64: representation *)

Scale == 1000 * 1000
FiniteMax == 1000 * Scale
PosInf == FiniteMax + 1
NegInf == 0 - PosInf
NaN == PosInf + 1

IsNaN(x) == x = NaN
IsInf(x) == x = PosInf \/ x = NegInf
IsFinite(x) == x >= 0 - FiniteMax /\ x <= FiniteMax

Abs(n) == IF n < 0 THEN 0 - n ELSE n
Sgn(n) == IF n < 0 THEN 0 - 1 ELSE IF n > 0 THEN 1 ELSE 0

\* an exact integer result brought into the format: overflow gives an infinity
Fin(n) == IF n > FiniteMax THEN PosInf ELSE IF n < 0 - FiniteMax THEN NegInf ELSE n

\* n / d for integers n >= 0, d > 0, rounded to nearest, ties to even
RoundDivPos(n, d) ==
    LET q == n \div d
        r == n % d
    IN  IF r > d - r THEN q + 1
        ELSE IF r < d - r THEN q
        ELSE IF q % 2 = 0 THEN q ELSE q + 1

RoundDiv(n, d) == Sgn(n) * Sgn(d) * RoundDivPos(Abs(n), Abs(d))

---------------------------------------------------------------------------
(* f64: arithmetic *)

FNeg(x) == IF IsNaN(x) THEN NaN ELSE 0 - x

FAdd(a, b) ==
    IF IsNaN(a) \/ IsNaN(b) THEN NaN
    ELSE IF IsInf(a) /\ IsInf(b) THEN (IF a = b THEN a ELSE NaN)
    ELSE IF IsInf(a) THEN a
    ELSE IF IsInf(b) THEN b
    ELSE Fin(a + b)

FSub(a, b) == FAdd(a, FNeg(b))

\* q + rem / d rounded to nearest, ties to even, for q, rem >= 0 and d > 0
RoundParts(q, rem, d) ==
    LET w == q + rem \div d
        r == rem % d
    IN  IF r > d - r THEN w + 1
        ELSE IF r < d - r THEN w
        ELSE IF w % 2 = 0 THEN w ELSE w + 1

\* |a| * |b| / Scale for finite a, b, by parts of three decimal digits so that
\* no intermediate product leaves 32 bits
MulMag(a, b) ==
    LET ah == a \div 1000
        al == a % 1000
        bh == b \div 1000
        bl == b % 1000
    IN  IF ah > 0 /\ bh > (FiniteMax + 1000) \div ah THEN PosInf
        ELSE LET hh  == ah * bh
                 m1  == ah * bl
                 m2  == al * bh
                 mq  == (m1 \div 1000) + (m2 \div 1000)
                 rem == ((m1 % 1000) + (m2 % 1000)) * 1000 + al * bl
             IN  Fin(RoundParts(hh + mq, rem, Scale))

FMul(a, b) ==
    IF IsNaN(a) \/ IsNaN(b) THEN NaN
    ELSE IF IsInf(a) \/ IsInf(b)
         THEN (IF a = 0 \/ b = 0 THEN NaN
               ELSE IF Sgn(a) * Sgn(b) > 0 THEN PosInf ELSE NegInf)
    ELSE LET m == MulMag(Abs(a), Abs(b))
         IN  IF Sgn(a) * Sgn(b) < 0 THEN 0 - m ELSE m

\* a / n for an f64 a and a whole f64 n (an elapsed time)
FDivWhole(a, n) ==
    IF IsNaN(a) THEN NaN
    ELSE IF n = 0
         THEN (IF a = 0 THEN NaN ELSE IF a > 0 THEN PosInf ELSE NegInf)
    ELSE IF IsInf(a) THEN (IF Sgn(a) * Sgn(n) > 0 THEN PosInf ELSE NegInf)
    ELSE RoundDiv(a, n)

\* |n| / |d| for whole n >= 0, d > 0: long division, three decimals at a time,
\* rounded once at the end
WholeDivMag(n, d) ==
    LET q0 == n \div d
        r0 == n % d
    IN  IF q0 > FiniteMax \div Scale THEN PosInf
        ELSE LET q1 == (r0 * 1000) \div d
                 r1 == (r0 * 1000) % d
             IN  Fin(q0 * Scale + q1 * 1000 + RoundDivPos(r1 * 1000, d))

\* n / d for whole f64 n and d (elapsed time over half-life)
WholeDiv(n, d) ==
    IF d = 0
    THEN (IF n = 0 THEN NaN ELSE IF n > 0 THEN PosInf ELSE NegInf)
    ELSE LET m == WholeDivMag(Abs(n), Abs(d))
         IN  IF Sgn(n) * Sgn(d) < 0 THEN 0 - m ELSE m

\* the f64 of a whole number n divided by the literal 1000.0 (exact here)
WholeDiv1000(n) == Fin(n * 1000)

\* f64::max: a NaN operand is ignored
FMax(a, b) ==
    IF IsNaN(a) THEN b
    ELSE IF IsNaN(b) THEN a
    ELSE IF a >= b THEN a ELSE b

\* a > b on f64: false when either is NaN
FGt(a, b) == ~IsNaN(a) /\ ~IsNaN(b) /\ a > b

\* floor(sqrt(n)) and the remainder n - root^2, one decimal digit at a time
RECURSIVE SqrtRem(_)
SqrtDigit(p, pair) ==
    LET r == p[1]
        c == p[2] * 100 + pair
        d == CHOOSE e \in 0..9 :
                /\ (20 * r + e) * e <= c
                /\ (e = 9 \/ (20 * r + e + 1) * (e + 1) > c)
    IN  <<10 * r + d, c - (20 * r + d) * d>>

SqrtRem(n) == IF n = 0 THEN <<0, 0>> ELSE SqrtDigit(SqrtRem(n \div 100), n % 100)

\* f64::sqrt, correctly rounded: three more digits of the root, then the nearest
FSqrt(x) ==
    IF IsNaN(x) \/ x < 0 THEN NaN
    ELSE IF x = PosInf THEN PosInf
    ELSE LET p == SqrtDigit(SqrtDigit(SqrtDigit(SqrtRem(x), 0), 0), 0)
         IN  IF p[2] > p[1] THEN p[1] + 1 ELSE p[1]

\* f64::exp: the power series with two guard digits up to |x| = 3, and
\* exp(x) = exp(x/2)^2 above
Guard == 10 * 10

RECURSIVE ExpSeries(_, _, _)
ExpSeries(x, term, k) ==
    IF term = 0 THEN 0
    ELSE term + ExpSeries(x, RoundDiv(FMul(term, x), k + 1), k + 1)

RECURSIVE ExpFinite(_)
ExpFinite(x) ==
    IF Abs(x) <= 3 * Scale THEN RoundDiv(ExpSeries(x, Scale * Guard, 0), Guard)
    ELSE LET h == ExpFinite(RoundDiv(x, 2)) IN FMul(h, h)

FExp(x) ==
    IF IsNaN(x) THEN NaN
    ELSE IF x = PosInf \/ x > 7 * Scale THEN PosInf
    ELSE IF x = NegInf \/ x < 0 - 15 * Scale THEN 0
    ELSE ExpFinite(x)

---------------------------------------------------------------------------
(* types.rs *)

PressureVector(latency, error, saturation) ==
    [latency |-> latency, error |-> error, saturation |-> saturation]

SensitivityWeights(w_latency, w_error, w_saturation) ==
    [w_latency |-> w_latency, w_error |-> w_error, w_saturation |-> w_saturation]

\* impl Default for PhysicsConfig
PhysicsConfig_default ==
    [base_resistance    |-> 10 * Scale,
     damping_factor     |-> 20 * Scale,
     scar_factor        |-> 5 * Scale,
     momentum_halflife  |-> 5000,
     bootstrap_ticks    |-> 10,
     break_threshold    |-> 100 * Scale,
     recovery_threshold |-> 50 * Scale]

\* impl Default for SensitivityWeights: ln 6, ln 9, ln 4
SensitivityWeights_default == SensitivityWeights(1791759, 2197225, 1386294)

OperationalMode == {"Bootstrap", "Operational", "CircuitBreaker"}

---------------------------------------------------------------------------
(* vector.rs *)

\* the four f64 lanes of a 256-bit register, lane 0 first
\* _mm256_set_pd(e3, e2, e1, e0)
mm256_set_pd(e3, e2, e1, e0) == <<e0, e1, e2, e3>>
mm256_mul_pd(a, b) == [i \in 1..4 |-> FMul(a[i], b[i])]
\* _mm256_hadd_pd: pairwise sums within each 128-bit half
mm256_hadd_pd(a, b) ==
    <<FAdd(a[1], a[2]), FAdd(b[1], b[2]), FAdd(a[3], a[4]), FAdd(b[3], b[4])>>
\* _mm256_extractf128_pd taking the low half whatever the selector
mm256_extractf128_pd_low(a, imm) == <<a[1], a[2]>>
mm256_extractf128_pd(a, imm) == IF imm = 1 THEN <<a[3], a[4]>> ELSE <<a[1], a[2]>>
mm256_castpd256_pd128(a) == <<a[1], a[2]>>
mm_add_pd(a, b) == <<FAdd(a[1], b[1]), FAdd(a[2], b[2])>>
\* _mm_store_sd stores lane 0
mm_store_sd(a) == a[1]

magnitude_simd_avx2(v) ==
    LET values  == mm256_set_pd(0, v.saturation, v.error, v.latency)
        squared == mm256_mul_pd(values, values)
        sum     == mm256_hadd_pd(squared, squared)
        hi128   == mm256_extractf128_pd(sum, 1)
        sum128  == mm_add_pd(mm256_castpd256_pd128(sum), hi128)
        result  == mm_store_sd(sum128)
    IN  FSqrt(result)

\* the two f64 lanes of a v128, lane 0 first
f64x2(a0, a1) == <<a0, a1>>
f64x2_mul(a, b) == <<FMul(a[1], b[1]), FMul(a[2], b[2])>>
f64x2_extract_lane(lane, a) == a[lane + 1]

magnitude_simd_wasm(v) ==
    LET low     == f64x2(v.latency, v.error)
        high    == f64x2(v.saturation, 0)
        low_sq  == f64x2_mul(low, low)
        high_sq == f64x2_mul(high, high)
        sum_low == FAdd(f64x2_extract_lane(0, low_sq), f64x2_extract_lane(1, low_sq))
        total   == FAdd(sum_low, f64x2_extract_lane(0, high_sq))
    IN  FSqrt(total)

magnitude_scalar(v) ==
    FSqrt(FAdd(FAdd(FMul(v.latency, v.latency), FMul(v.error, v.error)),
               FMul(v.saturation, v.saturation)))

TargetArch == {"x86_64", "wasm32", "other"}

\* vector::magnitude as built for the target architecture arch
magnitude(arch, v) ==
    IF arch = "x86_64" THEN magnitude_simd_avx2(v)
    ELSE IF arch = "wasm32" THEN magnitude_simd_wasm(v)
    ELSE magnitude_scalar(v)

dot_product(v, weights) ==
    FAdd(FAdd(FMul(v.latency, weights.w_latency), FMul(v.error, weights.w_error)),
         FMul(v.saturation, weights.w_saturation))

\* positive_stress_magnitude squaring the components before clamping them
positive_stress_magnitude_clamp_late(v) ==
    LET lat == FMax(FMul(v.latency, v.latency), 0)
        err == FMax(FMul(v.error, v.error), 0)
        sat == FMax(FMul(v.saturation, v.saturation), 0)
    IN  FSqrt(FAdd(FAdd(lat, err), sat))

positive_stress_magnitude(v) ==
    LET lat == FMax(v.latency, 0)
        err == FMax(v.error, 0)
        sat == FMax(v.saturation, 0)
    IN  FSqrt(FAdd(FAdd(FMul(lat, lat), FMul(err, err)), FMul(sat, sat)))

---------------------------------------------------------------------------
(* resistance.rs *)

\* calculate_resistance with the weighted pressure clamped at zero
calculate_resistance_clamped_pressure(pressure, momentum, scar, weights, config, staleness) ==
    LET weighted_pressure == FMax(dot_product(pressure, weights), 0)
        momentum_contribution == FMul(config.damping_factor, momentum)
        total == FAdd(FAdd(FAdd(FAdd(config.base_resistance, weighted_pressure),
                                momentum_contribution), scar), staleness)
    IN  FMax(total, config.base_resistance)

\* calculate_resistance without the final floor
calculate_resistance_no_floor(pressure, momentum, scar, weights, config, staleness) ==
    LET weighted_pressure == dot_product(pressure, weights)
        momentum_contribution == FMul(config.damping_factor, momentum)
    IN  FAdd(FAdd(FAdd(FAdd(config.base_resistance, weighted_pressure),
                       momentum_contribution), scar), staleness)

\* calculate_resistance with the staleness penalty subtracted
calculate_resistance_minus_staleness(pressure, momentum, scar, weights, config, staleness) ==
    LET weighted_pressure == dot_product(pressure, weights)
        momentum_contribution == FMul(config.damping_factor, momentum)
        total == FSub(FAdd(FAdd(FAdd(config.base_resistance, weighted_pressure),
                                momentum_contribution), scar), staleness)
    IN  FMax(total, config.base_resistance)

\* calculate_resistance acting as the circuit breaker: capped at break_threshold
calculate_resistance_breaking(pressure, momentum, scar, weights, config, staleness) ==
    LET weighted_pressure == dot_product(pressure, weights)
        momentum_contribution == FMul(config.damping_factor, momentum)
        total == FAdd(FAdd(FAdd(FAdd(config.base_resistance, weighted_pressure),
                                momentum_contribution), scar), staleness)
        floored == FMax(total, config.base_resistance)
    IN  IF FGt(floored, config.break_threshold) THEN config.break_threshold ELSE floored

calculate_resistance(pressure, momentum, scar, weights, config, staleness) ==
    LET weighted_pressure == dot_product(pressure, weights)
        momentum_contribution == FMul(config.damping_factor, momentum)
        total == FAdd(FAdd(FAdd(FAdd(config.base_resistance, weighted_pressure),
                                momentum_contribution), scar), staleness)
    IN  FMax(total, config.base_resistance)

---------------------------------------------------------------------------
(* scar.rs *)

\* the literal 0.7 (criticalPressure)
CriticalPressure == 700000
\* the literal decay_rate = 0.1
DecayRate == 100000

\* update_scar with the threshold test >= 0.7 instead of > 0.7
update_scar_nonstrict(current_scar, pressure, weights, config) ==
    LET positive_stress == positive_stress_magnitude(pressure)
        trauma == IF ~FGt(CriticalPressure, positive_stress)
                  THEN config.scar_factor ELSE 0
    IN  FAdd(current_scar, trauma)

\* update_scar with the threshold test inverted
update_scar_inverted(current_scar, pressure, weights, config) ==
    LET positive_stress == positive_stress_magnitude(pressure)
        trauma == IF FGt(CriticalPressure, positive_stress)
                  THEN config.scar_factor ELSE 0
    IN  FAdd(current_scar, trauma)

update_scar(current_scar, pressure, weights, config) ==
    LET positive_stress == positive_stress_magnitude(pressure)
        trauma == IF FGt(positive_stress, CriticalPressure)
                  THEN config.scar_factor ELSE 0
    IN  FAdd(current_scar, trauma)

\* update_scar_with_decay without the floor at zero
update_scar_with_decay_no_floor(current_scar, pressure, delta_t_ms, config) ==
    LET dt_seconds == WholeDiv1000(delta_t_ms)
        decayed == FMul(current_scar, FExp(FMul(FNeg(DecayRate), dt_seconds)))
        positive_stress == positive_stress_magnitude(pressure)
        trauma == IF FGt(positive_stress, CriticalPressure)
                  THEN config.scar_factor ELSE 0
    IN  FAdd(decayed, trauma)

update_scar_with_decay(current_scar, pressure, delta_t_ms, config) ==
    LET dt_seconds == WholeDiv1000(delta_t_ms)
        decay_rate == DecayRate
        decayed == FMul(current_scar, FExp(FMul(FNeg(decay_rate), dt_seconds)))
        positive_stress == positive_stress_magnitude(pressure)
        trauma == IF FGt(positive_stress, CriticalPressure)
                  THEN config.scar_factor ELSE 0
    IN  FMax(FAdd(decayed, trauma), 0)

---------------------------------------------------------------------------
(* momentum.rs *)

\* update_momentum with the sign of the exponent lost: decay = exp(delta_t / halflife)
update_momentum_growing(arch, current_momentum, previous_pressure, current_pressure, delta_t, config) ==
    LET decay == FExp(WholeDiv(delta_t, config.momentum_halflife))
        delta_pressure ==
            [latency    |-> FSub(current_pressure.latency, previous_pressure.latency),
             error      |-> FSub(current_pressure.error, previous_pressure.error),
             saturation |-> FSub(current_pressure.saturation,
                                 previous_pressure.saturation)]
        acceleration == IF delta_t > 0
                        THEN FDivWhole(magnitude(arch, delta_pressure), delta_t)
                        ELSE 0
    IN  FAdd(FMul(current_momentum, decay), FMul(acceleration, FSub(Scale, decay)))

update_momentum(arch, current_momentum, previous_pressure, current_pressure, delta_t, config) ==
    LET decay == FExp(WholeDiv(0 - delta_t, config.momentum_halflife))
        delta_pressure ==
            [latency    |-> FSub(current_pressure.latency, previous_pressure.latency),
             error      |-> FSub(current_pressure.error, previous_pressure.error),
             saturation |-> FSub(current_pressure.saturation,
                                 previous_pressure.saturation)]
        acceleration == IF delta_t > 0
                        THEN FDivWhole(magnitude(arch, delta_pressure), delta_t)
                        ELSE 0
        new_value == FAdd(FMul(current_momentum, decay),
                          FMul(acceleration, FSub(Scale, decay)))
    IN  new_value

---------------------------------------------------------------------------
(* lib.rs: the PhysicsEngine facade *)

PhysicsEngine_new ==
    [config |-> PhysicsConfig_default, weights |-> SensitivityWeights_default]

PhysicsEngine_with_config(config, weights) == [config |-> config, weights |-> weights]

PhysicsEngine_calculate_resistance(self, pressure, momentum, scar, staleness) ==
    calculate_resistance(pressure, momentum, scar, self.weights, self.config, staleness)

\* a facade that answers from the default configuration, not from its own
PhysicsEngine_update_scar_default_config(self, current_scar, pressure) ==
    update_scar(current_scar, pressure, SensitivityWeights_default, PhysicsConfig_default)

PhysicsEngine_update_scar(self, current_scar, pressure) ==
    update_scar(current_scar, pressure, self.weights, self.config)

PhysicsEngine_update_momentum(arch, self, current_momentum, previous_pressure, current_pressure, delta_t) ==
    update_momentum(arch, current_momentum, previous_pressure, current_pressure,
                    delta_t, self.config)

PhysicsEngine_vector_magnitude(arch, pressure) == magnitude(arch, pressure)

---------------------------------------------------------------------------
(* State: one engine, and one caller threading an entity's values through it *)

VARIABLES
    engine,             \* the PhysicsEngine: config and weights
    target_arch,        \* the architecture the crate is built for
    pressure,           \* the observation vector of this tick
    previous_pressure,  \* the observation vector of the previous tick
    delta_t,            \* the elapsed time of this tick (whole time units)
    staleness,          \* the staleness penalty of this tick
    scar,               \* the Scar the caller holds
    momentum,           \* the Momentum the caller holds
    call,               \* the last call into the core and what it returned
    entry,              \* the scar update the caller's loop is wired to
    ticks,              \* updates the caller has written back
    store,              \* what the caller has persisted for each entity
    streams             \* the streams of ticks that share the engine

vars == <<engine, target_arch, pressure, previous_pressure, delta_t, staleness,
          scar, momentum, call, entry, ticks, store, streams>>

\* a caller with a single loop has no streams and no per-entity store
NoStreams == <<>>

NoCall == [op |-> "none", out |-> 0]
Returned(op, out) == [op |-> op, out |-> out]

\* a vector given in tenths
Vec(a, b, c) == PressureVector(a * (Scale \div 10), b * (Scale \div 10), c * (Scale \div 10))
ZeroVector == Vec(0, 0, 0)

\* a configuration of the other sign, with a zero half-life
ConfigB ==
    [base_resistance    |-> 0 - 5 * (Scale \div 2),
     damping_factor     |-> 0 - 3 * (Scale \div 2),
     scar_factor        |-> 0 - 5 * Scale,
     momentum_halflife  |-> 0,
     bootstrap_ticks    |-> 0,
     break_threshold    |-> 20 * Scale,
     recovery_threshold |-> 10 * Scale]

\* a configuration with a short half-life and a zero floor
ConfigC ==
    [base_resistance    |-> 0,
     damping_factor     |-> Scale \div 2,
     scar_factor        |-> 5 * (Scale \div 2),
     momentum_halflife  |-> 1000,
     bootstrap_ticks    |-> 3,
     break_threshold    |-> 50 * Scale,
     recovery_threshold |-> 25 * Scale]

WeightsB == SensitivityWeights(0 - 2 * Scale, Scale \div 2, 0)
WeightsC == SensitivityWeights(8 * Scale, 10 * Scale, 5 * Scale)

\* the engines a host constructs: new() and withConfig(config, weights)
Engines ==
    {PhysicsEngine_new,
     PhysicsEngine_with_config(ConfigB, WeightsB),
     PhysicsEngine_with_config(ConfigC, WeightsC)}

---------------------------------------------------------------------------
(* Resistance: calculate_resistance applied to drawn inputs *)

ResVectors == {ZeroVector, Vec(5, 2, 3), Vec(0 - 5, 0 - 3, 0 - 2), Vec(8, 6, 5),
               PressureVector(1, 1, 1)}
ResMomenta == {0, Scale \div 2, 0 - 3 * Scale}
ResScars == {0, 1, 10 * Scale, 0 - 20 * Scale}
ResStaleness == {0, Scale \div 10, 0 - 15 * Scale}

InitResistance ==
    /\ engine \in Engines
    /\ target_arch = "x86_64"
    /\ pressure \in ResVectors
    /\ previous_pressure = ZeroVector
    /\ delta_t = 0
    /\ staleness \in ResStaleness
    /\ scar \in ResScars
    /\ momentum \in ResMomenta
    /\ call = NoCall
    /\ entry = "none"
    /\ ticks = 0
    /\ store = NoStreams
    /\ streams = NoStreams

\* resistance::calculate_resistance(&pressure, momentum, scar, &weights, &config, staleness)
CallCalculateResistance ==
    /\ call' = Returned("calculate_resistance",
                        calculate_resistance(pressure, momentum, scar, engine.weights,
                                             engine.config, staleness))
    /\ UNCHANGED <<engine, target_arch, pressure, previous_pressure, delta_t,
                   staleness, scar, momentum, entry, ticks>>
    /\ UNCHANGED <<store, streams>>

\* engine.calculate_resistance(&pressure, momentum, scar, staleness)
CallEngineCalculateResistance ==
    /\ call' = Returned("PhysicsEngine::calculate_resistance",
                        PhysicsEngine_calculate_resistance(engine, pressure, momentum,
                                                           scar, staleness))
    /\ UNCHANGED <<engine, target_arch, pressure, previous_pressure, delta_t,
                   staleness, scar, momentum, entry, ticks>>
    /\ UNCHANGED <<store, streams>>

NextResistance == CallCalculateResistance \/ CallEngineCalculateResistance

SpecResistance == InitResistance /\ [][NextResistance]_vars

ResistanceOps == {"calculate_resistance", "PhysicsEngine::calculate_resistance"}

\* the raw sum of the claim, term by term, left to right
RawResistance(p, m, s, w, c, st) ==
    FAdd(FAdd(FAdd(FAdd(c.base_resistance,
                        FAdd(FAdd(FMul(p.latency, w.w_latency), FMul(p.error, w.w_error)),
                             FMul(p.saturation, w.w_saturation))),
                   FMul(c.damping_factor, m)), s), st)

\* C2: calculate_resistance returns exactly max(raw, base_resistance), raw being
\* base + (lat*w_lat + err*w_err + sat*w_sat) + damping*momentum + scar + staleness
\* with no term clamped; all-zero inputs give base_resistance exactly, and a zero
\* vector, momentum and staleness give base_resistance + scar for scar >= 0.
C2_ExactFormula ==
    call.op \in ResistanceOps =>
        LET c   == engine.config
            raw == RawResistance(pressure, momentum, scar, engine.weights, c, staleness)
            zero == pressure = ZeroVector /\ momentum = 0 /\ staleness = 0
        IN  /\ call.out = (IF raw >= c.base_resistance THEN raw ELSE c.base_resistance)
            /\ (zero /\ scar = 0 => call.out = c.base_resistance)
            /\ (zero /\ scar >= 0 => call.out = c.base_resistance + scar)

\* C2 witness: a call whose negative weighted pressure is not clamped away, and
\* the zero-vector call with scar 10
C2_Witness ==
    /\ call.op = "calculate_resistance"
    /\ \/ /\ dot_product(pressure, engine.weights) < 0
          /\ call.out > engine.config.base_resistance
          /\ call.out < engine.config.base_resistance + scar
       \/ /\ pressure = ZeroVector /\ momentum = 0 /\ staleness = 0
          /\ scar = 10 * Scale
          /\ call.out = engine.config.base_resistance + 10 * Scale

---------------------------------------------------------------------------
(* Scar: a caller whose loop feeds one scar update its own result, tick after
   tick, under one observation and one elapsed time *)

\* the caller stops writing back beyond this many units of Scar
ScarCap == 100

ScarVectors == {ZeroVector, Vec(0 - 5, 0 - 3, 0 - 2), Vec(8, 6, 5), Vec(7, 0, 0),
                Vec(5, 0 - 9, 5)}
ScarDeltas == {0, 1000, 5000, 0 - 1000}
ScarStarts == {0, 3, 10 * Scale, 0 - 2 * Scale, 60 * Scale}
ScarOps == {"update_scar", "PhysicsEngine::update_scar", "update_scar_with_decay"}

InitScar ==
    /\ engine \in Engines
    /\ target_arch = "x86_64"
    /\ pressure \in ScarVectors
    /\ previous_pressure = ZeroVector
    /\ delta_t \in ScarDeltas
    /\ staleness = 0
    /\ scar \in ScarStarts
    /\ momentum = 0
    /\ call = NoCall
    /\ entry \in ScarOps
    /\ ticks = 0
    /\ store = NoStreams
    /\ streams = NoStreams

\* scar::update_scar(current_scar, &pressure, &weights, &config)
CallUpdateScar ==
    /\ entry = "update_scar"
    /\ call = NoCall
    /\ call' = Returned("update_scar",
                        update_scar(scar, pressure, engine.weights, engine.config))
    /\ UNCHANGED <<engine, target_arch, pressure, previous_pressure, delta_t,
                   staleness, scar, momentum, entry, ticks>>
    /\ UNCHANGED <<store, streams>>

\* engine.update_scar(current_scar, &pressure)
CallEngineUpdateScar ==
    /\ entry = "PhysicsEngine::update_scar"
    /\ call = NoCall
    /\ call' = Returned("PhysicsEngine::update_scar",
                        PhysicsEngine_update_scar(engine, scar, pressure))
    /\ UNCHANGED <<engine, target_arch, pressure, previous_pressure, delta_t,
                   staleness, scar, momentum, entry, ticks>>
    /\ UNCHANGED <<store, streams>>

\* scar::update_scar_with_decay(current_scar, &pressure, delta_t_ms, &config)
CallUpdateScarWithDecay ==
    /\ entry = "update_scar_with_decay"
    /\ call = NoCall
    /\ call' = Returned("update_scar_with_decay",
                        update_scar_with_decay(scar, pressure, delta_t, engine.config))
    /\ UNCHANGED <<engine, target_arch, pressure, previous_pressure, delta_t,
                   staleness, scar, momentum, entry, ticks>>
    /\ UNCHANGED <<store, streams>>

\* the caller keeps the returned Scar for the next tick
PersistScar ==
    /\ call.op \in ScarOps
    /\ Abs(call.out) <= ScarCap * Scale
    /\ scar' = call.out
    /\ call' = NoCall
    /\ UNCHANGED <<engine, target_arch, pressure, previous_pressure, delta_t,
                   staleness, momentum, entry, ticks>>
    /\ UNCHANGED <<store, streams>>

NextScar ==
    \/ CallUpdateScar
    \/ CallEngineUpdateScar
    \/ CallUpdateScarWithDecay
    \/ PersistScar

SpecScar == InitScar /\ [][NextScar]_vars

\* the same caller, given that ticks keep coming: a returned value is written
\* back (weak fairness of PersistScar) and the next call is made.  A call is
\* enabled exactly when call = NoCall and leaves call # NoCall, so weak
\* fairness of the calls is []<>(call # NoCall).
SpecStress ==
    /\ InitScar
    /\ [][NextScar]_vars
    /\ WF_vars(PersistScar)
    /\ []<>(call # NoCall)

\* whether this tick's observation is over the critical threshold
OverThreshold == positive_stress_magnitude(pressure) > CriticalPressure

\* C3: update_scar and PhysicsEngine::update_scar add exactly scar_factor when
\* positive_stress_magnitude(v) > 0.7, whatever the excess, and return the
\* current scar unchanged when it is <= 0.7 (0.7 itself, the zero vector and
\* negative components included).
C3_StrictThreshold ==
    call.op \in {"update_scar", "PhysicsEngine::update_scar"} =>
        IF positive_stress_magnitude(pressure) > CriticalPressure
        THEN call.out = scar + engine.config.scar_factor
        ELSE call.out = scar

\* C3 witness: stress of exactly 0.7 left the scar unchanged
C3_Witness ==
    /\ call.op = "update_scar"
    /\ positive_stress_magnitude(pressure) = CriticalPressure
    /\ scar = 10 * Scale
    /\ call.out = scar

\* C4: PhysicsEngine::update_scar returns what update_scar_with_decay returns for
\* the same current scar, vector, elapsed time and configuration (decay for the
\* elapsed time, trauma if any, floor at zero).
C4_FacadeIsCanonical ==
    call.op = "PhysicsEngine::update_scar" =>
        call.out = update_scar_with_decay(scar, pressure, delta_t, engine.config)

\* the decay factor exp(-0.1 * delta_t_ms / 1000) of this tick
DecayFactor == FExp(FMul(0 - DecayRate, delta_t * 1000))

\* max(0, d * current_scar + trauma) for this tick
CanonicalScar ==
    LET trauma == IF OverThreshold THEN engine.config.scar_factor ELSE 0
        raw    == FAdd(FMul(DecayFactor, scar), trauma)
    IN  IF raw >= 0 THEN raw ELSE 0

\* C5 as stated: update_scar_with_decay returns max(0, d*current_scar + trauma),
\* never a negative value, and with no trauma, current_scar > 0 and
\* delta_t_ms > 0 a value strictly below current_scar (10 decays to between 9
\* and 10 after 1000 ms).
C5_StrictDecay ==
    call.op = "update_scar_with_decay" =>
        /\ call.out = CanonicalScar
        /\ call.out >= 0
        /\ (~OverThreshold /\ scar > 0 /\ delta_t > 0) => call.out < scar
        /\ (~OverThreshold /\ scar = 10 * Scale /\ delta_t = 1000)
              => (call.out > 9 * Scale /\ call.out < 10 * Scale)

\* C5 amended: as C5, with the result on a tick without trauma at most
\* current_scar rather than strictly below it.
C5_Decay ==
    call.op = "update_scar_with_decay" =>
        /\ call.out = CanonicalScar
        /\ call.out >= 0
        /\ (~OverThreshold /\ scar > 0 /\ delta_t > 0) => call.out <= scar
        /\ (~OverThreshold /\ scar = 10 * Scale /\ delta_t = 1000)
              => (call.out > 9 * Scale /\ call.out < 10 * Scale)

\* C5 witness: 10 decayed for 1000 ms without trauma
C5_Witness ==
    /\ call.op = "update_scar_with_decay"
    /\ ~OverThreshold /\ scar = 10 * Scale /\ delta_t = 1000
    /\ call.out > 9 * Scale /\ call.out < 10 * Scale

\* sustained stress with scar_factor > 0, fed to update_scar tick after tick
PlainStress ==
    /\ entry \in {"update_scar", "PhysicsEngine::update_scar"}
    /\ OverThreshold
    /\ engine.config.scar_factor > 0

\* the same stress fed to update_scar_with_decay with a fixed delta_t_ms > 0
DecayStress ==
    /\ entry = "update_scar_with_decay"
    /\ OverThreshold
    /\ engine.config.scar_factor > 0
    /\ delta_t > 0

\* the bounds B, in units of Scar, that sustained stress is to exceed
StressBounds == {20, 50, 90}

\* C9 as stated: under sustained over-threshold stress with scar_factor > 0 Scar
\* exceeds every bound B after finitely many ticks, under update_scar and under
\* update_scar_with_decay with a fixed delta_t_ms > 0.
C9_UnboundedGrowth ==
    \A B \in StressBounds :
        (PlainStress \/ DecayStress) => <>(scar > B * Scale)

\* C9 amended: under update_scar Scar exceeds every bound B after finitely many
\* ticks; under update_scar_with_decay with a fixed delta_t_ms > 0 it does not:
\* a tick never takes Scar above the larger of its previous value and
\* scar_factor / (1 - d).
C9_GrowthWithoutDecay ==
    /\ \A B \in StressBounds : PlainStress => <>(scar > B * Scale)
    /\ [][ DecayStress =>
             \/ scar' <= scar
             \/ FMul(scar', Scale - DecayFactor) <= engine.config.scar_factor ]_vars

\* C9 witness: update_scar under sustained stress has taken Scar from at most 60
\* to above 90
C9_Witness == PlainStress /\ call = NoCall /\ scar > 90 * Scale

---------------------------------------------------------------------------
(* Vector math: the functions of vector.rs, and the scar updates that gate on
   them, applied to a grid of vectors *)

GridTenths == {0 - 9, 0 - 5, 0, 3, 5, 7, 8}
VecGrid == {Vec(a, b, c) : a \in GridTenths, b \in GridTenths, c \in GridTenths}

InitVector ==
    /\ engine \in Engines
    /\ target_arch \in TargetArch
    /\ pressure \in VecGrid
    /\ previous_pressure = ZeroVector
    /\ delta_t = 1000
    /\ staleness = 0
    /\ scar = 5 * Scale
    /\ momentum = 0
    /\ call = NoCall
    /\ entry \in ScarOps
    /\ ticks = 0
    /\ store = NoStreams
    /\ streams = NoStreams

\* vector::magnitude(&pressure), as PhysicsEngine::vector_magnitude passes it on
CallVectorMagnitude ==
    /\ call' = Returned("magnitude", PhysicsEngine_vector_magnitude(target_arch, pressure))
    /\ UNCHANGED <<engine, target_arch, pressure, previous_pressure, delta_t,
                   staleness, scar, momentum, entry, ticks>>
    /\ UNCHANGED <<store, streams>>

\* vector::positive_stress_magnitude(&pressure)
CallPositiveStressMagnitude ==
    /\ call' = Returned("positive_stress_magnitude", positive_stress_magnitude(pressure))
    /\ UNCHANGED <<engine, target_arch, pressure, previous_pressure, delta_t,
                   staleness, scar, momentum, entry, ticks>>
    /\ UNCHANGED <<store, streams>>

\* vector::dot_product(&pressure, &weights)
CallDotProduct ==
    /\ call' = Returned("dot_product", dot_product(pressure, engine.weights))
    /\ UNCHANGED <<engine, target_arch, pressure, previous_pressure, delta_t,
                   staleness, scar, momentum, entry, ticks>>
    /\ UNCHANGED <<store, streams>>

NextVector ==
    \/ CallVectorMagnitude
    \/ CallPositiveStressMagnitude
    \/ CallDotProduct
    \/ CallUpdateScar
    \/ CallEngineUpdateScar
    \/ CallUpdateScarWithDecay

SpecVector == InitVector /\ [][NextVector]_vars

\* v with every negative component replaced by 0
Clamped(v) ==
    [latency    |-> IF v.latency < 0 THEN 0 ELSE v.latency,
     error      |-> IF v.error < 0 THEN 0 ELSE v.error,
     saturation |-> IF v.saturation < 0 THEN 0 ELSE v.saturation]

\* v and w have the same positive components
AgreeOnPositive(v, w) ==
    /\ (v.latency > 0 \/ w.latency > 0) => v.latency = w.latency
    /\ (v.error > 0 \/ w.error > 0) => v.error = w.error
    /\ (v.saturation > 0 \/ w.saturation > 0) => v.saturation = w.saturation

\* C6: positive_stress_magnitude(v) is the Euclidean norm of v with its negative
\* components replaced by 0: equal for vectors that agree on their positive
\* components, 0 when no component is positive; and no scar update adds trauma
\* when the positive components alone have norm <= 0.7.
C6_CheckValve ==
    /\ call.op = "positive_stress_magnitude" =>
          /\ call.out = magnitude_scalar(Clamped(pressure))
          /\ \A w \in VecGrid :
                AgreeOnPositive(pressure, w) => positive_stress_magnitude(w) = call.out
          /\ ( pressure.latency <= 0 /\ pressure.error <= 0 /\ pressure.saturation <= 0 )
                => call.out = 0
    /\ ( call.op \in ScarOps /\ magnitude_scalar(Clamped(pressure)) <= CriticalPressure ) =>
          IF call.op = "update_scar_with_decay"
          THEN call.out = FMul(scar, DecayFactor)
          ELSE call.out = scar

\* C6 witness: (0.5, -0.9, 0.3) has norm above 0.7, its positive part below, and
\* the scar update added nothing
C6_Witness ==
    /\ call.op = "update_scar"
    /\ pressure = Vec(5, 0 - 9, 3)
    /\ magnitude_scalar(pressure) > CriticalPressure
    /\ positive_stress_magnitude(pressure) = magnitude_scalar(Vec(5, 0, 3))
    /\ call.out = scar

---------------------------------------------------------------------------
(* Momentum: update_momentum applied to drawn inputs, its result fed back *)

\* the caller writes back at most this many updates
MaxTicks == 2

MomVectors == {ZeroVector, Vec(5, 2, 3), Vec(8, 4, 5)}
MomDeltas == {0, 100, 1000, 0 - 1000, 0 - 40000}
MomStarts == {0, 3, 5 * Scale, 10 * Scale, 0 - 3 * Scale}
MomOps == {"update_momentum", "PhysicsEngine::update_momentum"}

InitMomentum ==
    /\ engine \in Engines
    /\ target_arch \in TargetArch
    /\ pressure \in MomVectors
    /\ previous_pressure \in MomVectors
    /\ delta_t \in MomDeltas
    /\ staleness = 0
    /\ scar = 0
    /\ momentum \in MomStarts
    /\ call = NoCall
    /\ entry = "none"
    /\ ticks = 0
    /\ store = NoStreams
    /\ streams = NoStreams

\* momentum::update_momentum(current, &previous_pressure, &current_pressure, delta_t, &config)
CallUpdateMomentum ==
    /\ call' = Returned("update_momentum",
                        update_momentum(target_arch, momentum, previous_pressure,
                                        pressure, delta_t, engine.config))
    /\ UNCHANGED <<engine, target_arch, pressure, previous_pressure, delta_t,
                   staleness, scar, momentum, entry, ticks>>
    /\ UNCHANGED <<store, streams>>

\* engine.update_momentum(current, &previous_pressure, &current_pressure, delta_t)
CallEngineUpdateMomentum ==
    /\ call' = Returned("PhysicsEngine::update_momentum",
                        PhysicsEngine_update_momentum(target_arch, engine, momentum,
                                                      previous_pressure, pressure, delta_t))
    /\ UNCHANGED <<engine, target_arch, pressure, previous_pressure, delta_t,
                   staleness, scar, momentum, entry, ticks>>
    /\ UNCHANGED <<store, streams>>

\* the caller keeps the returned Momentum; the same observation comes again
PersistMomentum ==
    /\ call.op \in MomOps
    /\ ticks < MaxTicks
    /\ momentum' = call.out
    /\ previous_pressure' = pressure
    /\ call' = NoCall
    /\ ticks' = ticks + 1
    /\ UNCHANGED <<engine, target_arch, pressure, delta_t, staleness, scar, entry>>
    /\ UNCHANGED <<store, streams>>

NextMomentum ==
    \/ CallUpdateMomentum
    \/ CallEngineUpdateMomentum
    \/ PersistMomentum

SpecMomentum == InitMomentum /\ [][NextMomentum]_vars

\* C7: update_momentum with delta_t = 0 returns exactly the current momentum,
\* whatever the two vectors and the configuration.
C7_ZeroDeltaKeepsMomentum ==
    (call.op \in MomOps /\ delta_t = 0) => call.out = momentum

\* C8: for delta_t <= 0 update_momentum uses acceleration 0: the result is
\* current * exp(-delta_t / momentum_halflife), with no acceleration term, the
\* same for every pair of vectors.
C8_NoAccelerationTerm ==
    (call.op \in MomOps /\ delta_t <= 0) =>
        /\ call.out = FMul(momentum,
                           FExp(WholeDiv(0 - delta_t, engine.config.momentum_halflife)))
        /\ \A p \in MomVectors, q \in MomVectors :
              update_momentum(target_arch, momentum, p, q, delta_t, engine.config)
                  = call.out

---------------------------------------------------------------------------
(* The tick loop of a caller: each tick it takes an observation, calls the *)
(* core and keeps the Scar or Momentum that comes back for the next tick.  *)

TickVectors == {ZeroVector, Vec(8, 4, 5), Vec(0 - 9, 0 - 5, 0)}
TickDeltas == {0, 1000}
TickMomenta == {0, 0 - 3 * Scale}
UpdateOps == ScarOps \cup MomOps

Init ==
    /\ engine \in Engines
    /\ target_arch = "x86_64"
    /\ pressure \in TickVectors
    /\ previous_pressure = ZeroVector
    /\ delta_t = 1000
    /\ staleness = 0
    /\ scar = 0
    /\ momentum \in TickMomenta
    /\ call = NoCall
    /\ entry \in ScarOps
    /\ ticks = 0
    /\ store = NoStreams
    /\ streams = NoStreams

\* the next tick's observation arrives after delta_t
Observe(v, dt) ==
    /\ call = NoCall
    /\ ticks < MaxTicks
    /\ previous_pressure' = pressure
    /\ pressure' = v
    /\ delta_t' = dt
    /\ UNCHANGED <<engine, target_arch, staleness, scar, momentum, call, entry, ticks>>
    /\ UNCHANGED <<store, streams>>

\* the caller keeps the returned Scar or Momentum for the next tick
Persist ==
    /\ call.op \in UpdateOps
    /\ ticks < MaxTicks
    /\ scar' = IF call.op \in ScarOps THEN call.out ELSE scar
    /\ momentum' = IF call.op \in MomOps THEN call.out ELSE momentum
    /\ call' = NoCall
    /\ ticks' = ticks + 1
    /\ UNCHANGED <<engine, target_arch, pressure, previous_pressure, delta_t,
                   staleness, entry>>
    /\ UNCHANGED <<store, streams>>

Next ==
    \/ \E v \in TickVectors, dt \in TickDeltas : Observe(v, dt)
    \/ CallCalculateResistance
    \/ CallEngineCalculateResistance
    \/ CallUpdateScar
    \/ CallEngineUpdateScar
    \/ CallUpdateScarWithDecay
    \/ CallUpdateMomentum
    \/ CallEngineUpdateMomentum
    \/ Persist

Spec == Init /\ [][Next]_vars

\* C1: calculate_resistance and PhysicsEngine::calculate_resistance never return
\* a value below config.base_resistance, at any tick of any sequence of scar and
\* momentum updates fed back into them.
C1_HardFloor ==
    call.op \in ResistanceOps =>
        /\ ~IsNaN(call.out)
        /\ call.out >= engine.config.base_resistance

\* C1 witness: after updates were fed back the raw sum is below the floor and
\* the floor is what comes back
C1_Witness ==
    /\ call.op \in ResistanceOps
    /\ ticks > 0
    /\ FGt(engine.config.base_resistance,
           RawResistance(pressure, momentum, scar, engine.weights, engine.config, staleness))
    /\ call.out = engine.config.base_resistance

---------------------------------------------------------------------------
(* Several streams of ticks share one engine.  A tick reads what the caller *)
(* persisted for its entity, calls the engine's methods one by one and      *)
(* writes the results back; nothing orders the steps of different streams.  *)

Entities == {1, 2}
StreamIds == {1, 2}
StreamVectors == {Vec(8, 4, 5), Vec(0 - 5, 0 - 3, 0 - 2)}
StreamScars == {0, 10 * Scale}

\* what the caller holds for an entity before its first tick
Persisted(s, m) == [scar |-> s, momentum |-> m, resistance |-> 0, version |-> 0]

\* a stream before its first tick, bound to entity e and observing v
StreamStart(e, v) == [entity |-> e, obs |-> v, pc |-> "idle", seen |-> 0, done |-> 0, scar |-> 0, momentum |-> 0, resistance |-> 0, new_scar |-> 0, new_momentum |-> 0, magnitude |-> 0]

InitStreams ==
    /\ engine \in Engines
    /\ target_arch = "x86_64"
    /\ pressure = ZeroVector
    /\ previous_pressure = ZeroVector
    /\ delta_t = 1000
    /\ staleness = 0
    /\ scar \in StreamScars
    /\ momentum = 0
    /\ call = NoCall
    /\ entry = "PhysicsEngine::update_scar"
    /\ ticks = 0
    /\ store = [e \in Entities |-> Persisted(scar, momentum)]
    /\ streams \in {[t \in StreamIds |-> IF t = 1 THEN StreamStart(1, v1) ELSE StreamStart(e2, v2)] : e2 \in Entities, v1 \in StreamVectors, v2 \in StreamVectors}

\* what a step of stream t leaves alone
StreamFrame == UNCHANGED <<engine, target_arch, pressure, previous_pressure, delta_t, staleness, scar, momentum, call, entry, ticks>>

\* the tick reads last tick's Scar and Momentum of its entity
StreamRead(t) ==
    /\ streams[t].pc = "idle"
    /\ streams[t].done < MaxTicks
    /\ streams' = [streams EXCEPT ![t].scar = store[streams[t].entity].scar,
                                  ![t].momentum = store[streams[t].entity].momentum,
                                  ![t].seen = store[streams[t].entity].version,
                                  ![t].pc = "resistance"]
    /\ UNCHANGED store
    /\ StreamFrame

\* engine.calculate_resistance(&pressure, momentum, scar, staleness)
StreamCalculateResistance(t) ==
    /\ streams[t].pc = "resistance"
    /\ streams' = [streams EXCEPT ![t].resistance = PhysicsEngine_calculate_resistance(engine, streams[t].obs, streams[t].momentum, streams[t].scar, staleness),
                                  ![t].pc = "momentum"]
    /\ UNCHANGED store
    /\ StreamFrame

\* engine.update_momentum(current, &previous_pressure, &current_pressure, delta_t)
StreamUpdateMomentum(t) ==
    /\ streams[t].pc = "momentum"
    /\ streams' = [streams EXCEPT ![t].new_momentum = PhysicsEngine_update_momentum(target_arch, engine, streams[t].momentum, previous_pressure, streams[t].obs, delta_t),
                                  ![t].pc = "scar"]
    /\ UNCHANGED store
    /\ StreamFrame

\* engine.update_scar(current_scar, &pressure)
StreamUpdateScar(t) ==
    /\ streams[t].pc = "scar"
    /\ streams' = [streams EXCEPT ![t].new_scar = PhysicsEngine_update_scar(engine, streams[t].scar, streams[t].obs),
                                  ![t].pc = "magnitude"]
    /\ UNCHANGED store
    /\ StreamFrame

\* engine.vector_magnitude(&pressure)
StreamVectorMagnitude(t) ==
    /\ streams[t].pc = "magnitude"
    /\ streams' = [streams EXCEPT ![t].magnitude = PhysicsEngine_vector_magnitude(target_arch, streams[t].obs),
                                  ![t].pc = "write"]
    /\ UNCHANGED store
    /\ StreamFrame

\* the tick writes its results back for the entity's next tick
StreamWrite(t) ==
    /\ streams[t].pc = "write"
    /\ store' = [store EXCEPT ![streams[t].entity] = [scar |-> streams[t].new_scar, momentum |-> streams[t].new_momentum, resistance |-> streams[t].resistance, version |-> @.version + 1]]
    /\ streams' = [streams EXCEPT ![t].pc = "idle", ![t].done = @ + 1]
    /\ StreamFrame

NextStreams ==
    \E t \in StreamIds :
        \/ StreamRead(t)
        \/ StreamCalculateResistance(t)
        \/ StreamUpdateMomentum(t)
        \/ StreamUpdateScar(t)
        \/ StreamVectorMagnitude(t)
        \/ StreamWrite(t)

SpecStreams == InitStreams /\ [][NextStreams]_vars

\* one tick computed from the stream's arguments and the configuration and
\* weights the engine was constructed with
AloneTick(st, v) == [scar |-> update_scar(st.scar, v, engine.weights, engine.config), momentum |-> update_momentum(target_arch, st.momentum, previous_pressure, v, delta_t, engine.config), resistance |-> calculate_resistance(v, st.momentum, st.scar, engine.weights, engine.config, staleness), version |-> st.version + 1]

\* what is persisted after k ticks of a stream that observes v and runs alone
RECURSIVE Alone(_, _)
Alone(v, k) == IF k = 0 THEN Persisted(scar, momentum) ELSE AloneTick(Alone(v, k - 1), v)

DistinctEntities == streams[1].entity # streams[2].entity

\* C11: no call changes the engine's configuration or weights, and when the
\* streams that share the engine work on different entities, under every
\* interleaving of their calls each entity's persisted Scar, Momentum and
\* Resistance after k ticks are what the stream computes when it runs alone.
C11_StatelessFacade ==
    /\ [](DistinctEntities =>
            \A t \in StreamIds :
                store[streams[t].entity] = Alone(streams[t].obs, streams[t].done))
    /\ [][engine' = engine]_vars

\* C11 witness: the two streams are on different entities, each has finished a
\* tick and both are in the middle of their next one
C11_Witness ==
    /\ DistinctEntities
    /\ streams[1].obs # streams[2].obs
    /\ streams[1].done = 1 /\ streams[1].pc = "scar"
    /\ streams[2].done = 1 /\ streams[2].pc = "momentum"
    /\ store[1].scar # store[2].scar

\* both streams tick the same entity and each has finished exactly one tick
TwoTicksOfOneEntity ==
    /\ ~DistinctEntities
    /\ \A t \in StreamIds : streams[t].done = 1 /\ streams[t].pc = "idle"

\* both ticks read the persisted values before either wrote
Unserialized == \A t \in StreamIds : streams[t].seen = 0

\* the observation of stream t is over the critical threshold
StreamOverThreshold(t) == positive_stress_magnitude(streams[t].obs) > CriticalPressure

\* the persisted Scar, Momentum and Resistance are those of record r
Holds(r) == store[1].scar = r.scar /\ store[1].momentum = r.momentum /\ store[1].resistance = r.resistance

\* C12: when two unserialized ticks of one entity both read the same persisted
\* Scar and Momentum and both write back, what is persisted is the result of
\* one of the two updates alone (two over-threshold ticks leave s + scar_factor,
\* not s + 2*scar_factor); when the caller serializes them both updates apply.
C12_LostUpdate ==
    TwoTicksOfOneEntity =>
        LET prior == Persisted(scar, momentum)
            both  == \A t \in StreamIds : StreamOverThreshold(t)
            once  == FAdd(scar, engine.config.scar_factor)
            twice == FAdd(once, engine.config.scar_factor)
        IN  IF Unserialized
            THEN /\ \E t \in StreamIds : Holds(AloneTick(prior, streams[t].obs))
                 /\ both => (store[1].scar = once /\ store[1].scar # twice)
            ELSE /\ \E a \in StreamIds, b \in StreamIds :
                        /\ streams[a].seen = 0
                        /\ streams[b].seen = 1
                        /\ Holds(AloneTick(AloneTick(prior, streams[a].obs), streams[b].obs))
                 /\ both => store[1].scar = twice

\* C12 witness: two unserialized over-threshold ticks of one entity have both
\* written back and one impulse is persisted
C12_Witness ==
    /\ TwoTicksOfOneEntity
    /\ Unserialized
    /\ \A t \in StreamIds : StreamOverThreshold(t)
    /\ store[1].version = 2
    /\ store[1].scar = FAdd(scar, engine.config.scar_factor)

---------------------------------------------------------------------------
(* magnitude on each target architecture, on drawn vectors *)

MagTenths == {0 - 9, 0, 3, 7, 10, 30, 40}
MagComponents == {t * (Scale \div 10) : t \in MagTenths} \cup {PosInf, NaN}
MagGrid == {PressureVector(a, b, c) : a \in MagComponents, b \in MagComponents, c \in MagComponents}

InitMagnitude ==
    /\ engine = PhysicsEngine_new
    /\ target_arch \in TargetArch
    /\ pressure \in MagGrid
    /\ previous_pressure = ZeroVector
    /\ delta_t = 0
    /\ staleness = 0
    /\ scar = 0
    /\ momentum = 0
    /\ call = NoCall
    /\ entry = "none"
    /\ ticks = 0
    /\ store = NoStreams
    /\ streams = NoStreams

NextMagnitude == CallVectorMagnitude

SpecMagnitude == InitMagnitude /\ [][NextMagnitude]_vars

\* the sum of the three squared components, left to right
SumOfSquares(v) ==
    FAdd(FAdd(FMul(v.latency, v.latency), FMul(v.error, v.error)), FMul(v.saturation, v.saturation))

\* C13: on every target architecture magnitude returns the value of the scalar
\* computation sqrt(latency^2 + error^2 + saturation^2): the AVX2 path and the
\* WASM SIMD128 path both reduce to the sum of exactly the three squares;
\* magnitude(0,0,0) = 0, magnitude(1,0,0) = 1 and magnitude(3,4,0) = 5.
C13_PathsAgree ==
    call.op = "magnitude" =>
        /\ call.out = FSqrt(SumOfSquares(pressure))
        /\ magnitude_simd_avx2(pressure) = magnitude_scalar(pressure)
        /\ magnitude_simd_wasm(pressure) = magnitude_scalar(pressure)
        /\ pressure = ZeroVector => call.out = 0
        /\ pressure = Vec(10, 0, 0) => call.out = Scale
        /\ pressure = Vec(30, 40, 0) => call.out = 5 * Scale

\* C13 witness: the AVX2 build has returned 5 for (3, 4, 0)
C13_Witness ==
    /\ call.op = "magnitude"
    /\ target_arch = "x86_64"
    /\ pressure = Vec(30, 40, 0)
    /\ call.out = 5 * Scale

---------------------------------------------------------------------------
(* update_momentum with positive elapsed time and positive half-life *)

\* the call is an update_momentum with delta_t > 0, momentum_halflife > 0 and a
\* finite current momentum
BlendCase ==
    /\ call.op \in MomOps
    /\ delta_t > 0
    /\ engine.config.momentum_halflife > 0
    /\ IsFinite(momentum)

\* the instantaneous acceleration magnitude(curr - prev) / delta_t of this tick
Acceleration ==
    FDivWhole(magnitude(target_arch, [latency |-> FSub(pressure.latency, previous_pressure.latency), error |-> FSub(pressure.error, previous_pressure.error), saturation |-> FSub(pressure.saturation, previous_pressure.saturation)]), delta_t)

Lower(x, y) == IF x <= y THEN x ELSE y
Higher(x, y) == IF x <= y THEN y ELSE x

\* C14 as stated: for delta_t > 0 and momentum_halflife > 0 the result lies
\* between current and a = magnitude(curr - prev)/delta_t; with an unchanged
\* vector and current > 0 it is >= 0 and strictly below current; with current = 0
\* and a changed vector it is strictly above 0; from momentum >= 0 it stays >= 0.
C14_NoOvershoot ==
    BlendCase =>
        /\ Lower(momentum, Acceleration) <= call.out
        /\ call.out <= Higher(momentum, Acceleration)
        /\ (pressure = previous_pressure /\ momentum > 0) =>
               (0 <= call.out /\ call.out < momentum)
        /\ (momentum = 0 /\ pressure # previous_pressure) => call.out > 0
        /\ momentum >= 0 => call.out >= 0

\* C14 amended: the result lies between current and a up to one unit in the
\* last place; with an unchanged vector and current > 0 it is >= 0 and at most
\* current (strictly below 10 for current = 10 after 1000 time units); with
\* current = 0 it is >= 0 (strictly above 0 for (0,0,0) -> (0.5,0.2,0.3) over 100
\* time units); from momentum >= 0 it stays >= 0.
C14_Blend ==
    BlendCase =>
        /\ Lower(momentum, Acceleration) - 1 <= call.out
        /\ call.out <= Higher(momentum, Acceleration) + 1
        /\ (pressure = previous_pressure /\ momentum > 0) =>
               (0 <= call.out /\ call.out <= momentum)
        /\ (pressure = previous_pressure /\ momentum = 10 * Scale /\ delta_t = 1000) =>
               call.out < 10 * Scale
        /\ momentum = 0 => call.out >= 0
        /\ (momentum = 0 /\ previous_pressure = ZeroVector /\ pressure = Vec(5, 2, 3) /\ delta_t = 100) =>
               call.out > 0
        /\ momentum >= 0 => call.out >= 0

\* C14 witness: a momentum that an earlier update produced and the caller wrote
\* back has decayed to a value strictly between 0 and itself
C14_Witness ==
    /\ BlendCase
    /\ ticks > 0
    /\ momentum \notin MomStarts
    /\ 0 < call.out
    /\ call.out < momentum

---------------------------------------------------------------------------
(* every operation of the core, on drawn inputs: which fields of the        *)
(* configuration the results depend on                                      *)

PolicyVectors == {ZeroVector, Vec(8, 4, 5), Vec(0 - 5, 0 - 3, 0 - 2)}
PolicyScars == {0, 200 * Scale}
PolicyMomenta == {0, 5 * Scale}
PolicyTicks == {0, 3, 10}
PolicyThresholds == {0, 20 * Scale, 100 * Scale}

InitPolicy ==
    /\ engine \in Engines
    /\ target_arch \in TargetArch
    /\ pressure \in PolicyVectors
    /\ previous_pressure = ZeroVector
    /\ delta_t = 1000
    /\ staleness = 0
    /\ scar \in PolicyScars
    /\ momentum \in PolicyMomenta
    /\ call = NoCall
    /\ entry \in ScarOps
    /\ ticks = 0
    /\ store = NoStreams
    /\ streams = NoStreams

NextPolicy ==
    \/ CallCalculateResistance
    \/ CallEngineCalculateResistance
    \/ CallUpdateScar
    \/ CallEngineUpdateScar
    \/ CallUpdateScarWithDecay
    \/ CallUpdateMomentum
    \/ CallEngineUpdateMomentum
    \/ CallVectorMagnitude

SpecPolicy == InitPolicy /\ [][NextPolicy]_vars

\* the configurations that differ from c in the controller's fields only
PolicyVariants(c) == {[c EXCEPT !.bootstrap_ticks = b, !.break_threshold = x, !.recovery_threshold = y] : b \in PolicyTicks, x \in PolicyThresholds, y \in PolicyThresholds}

\* the call op made again on the same arguments under configuration c
Recall(op, c) ==
    CASE op = "calculate_resistance" -> calculate_resistance(pressure, momentum, scar, engine.weights, c, staleness)
      [] op = "PhysicsEngine::calculate_resistance" -> PhysicsEngine_calculate_resistance(PhysicsEngine_with_config(c, engine.weights), pressure, momentum, scar, staleness)
      [] op = "update_scar" -> update_scar(scar, pressure, engine.weights, c)
      [] op = "PhysicsEngine::update_scar" -> PhysicsEngine_update_scar(PhysicsEngine_with_config(c, engine.weights), scar, pressure)
      [] op = "update_scar_with_decay" -> update_scar_with_decay(scar, pressure, delta_t, c)
      [] op = "update_momentum" -> update_momentum(target_arch, momentum, previous_pressure, pressure, delta_t, c)
      [] op = "PhysicsEngine::update_momentum" -> PhysicsEngine_update_momentum(target_arch, PhysicsEngine_with_config(c, engine.weights), momentum, previous_pressure, pressure, delta_t)
      [] op = "magnitude" -> PhysicsEngine_vector_magnitude(target_arch, pressure)

\* C15: the results of calculate_resistance, update_scar, update_scar_with_decay,
\* update_momentum and magnitude are the same for configurations that differ
\* only in bootstrap_ticks, break_threshold or recovery_threshold; what a call
\* returns is a number, never an OperationalMode, and the engine holds a
\* configuration and weights and no mode.
C15_NoPolicy ==
    call.op # "none" =>
        /\ \A c \in PolicyVariants(engine.config) : Recall(call.op, c) = call.out
        /\ call.out \in Int
        /\ DOMAIN engine = {"config", "weights"}
        /\ DOMAIN engine.config = {"base_resistance", "damping_factor", "scar_factor", "momentum_halflife", "bootstrap_ticks", "break_threshold", "recovery_threshold"}

\* C15 witness: a Resistance above break_threshold is returned as it is
C15_Witness ==
    /\ call.op \in ResistanceOps
    /\ IsFinite(call.out)
    /\ call.out > engine.config.break_threshold
    /\ engine.config.break_threshold > engine.config.base_resistance

====
